---- MODULE Spec2Model ----
(***************************************************************************)
(* SafeNSound.py: a Tkinter HUD that shows drone telemetry, the weather at *)
(* the user's location and the nearest airports, refreshed every 5 s.      *)
(*                                                                         *)
(* The main program (lines 180-230) is modelled as one sequential process  *)
(* whose position is pc; the three labels of the HUD are the displayed     *)
(* state.  find_nearest_airports (lines 32-51) is modelled as an operator  *)
(* and is also exercised on its own by QuerySpec.                          *)
(*                                                                         *)
(* Coordinates are whole degrees.  geopy's geodesic is a library call; it  *)
(* is replaced by a squared planar distance with longitude wrap-around,    *)
(* which keeps what the sort depends on: a total preorder with ties.       *)
(***************************************************************************)
EXTENDS Integers, Sequences, FiniteSets, TLC

---------------------------------------------------------------------------
(* Bounds of the model *)

\* refresh cycles the model lets the engine start
MaxCycles == 2
\* rows of the airport dataset loaded at startup
MaxRows == 2
\* airports of a dataset handed to find_nearest_airports in QuerySpec
MaxAirports == 3
\* largest num_airports tried in QuerySpec
MaxK == 4

(* Program constants *)

\* num_airports=5
DefaultNumAirports == 5
\* response.status_code == 200
HttpOk == 200
\* valid latitudes and longitudes (degrees)
LatLimit == 90
LonLimit == 180

---------------------------------------------------------------------------
(* Values *)

\* a Python float or None
None == [none |-> TRUE, val |-> 0]
Float(x) == [none |-> FALSE, val |-> x]

\* Python truthiness of a float or None: None and 0.0 are falsy
Truthy(v) == ~v.none /\ v.val # 0

\* a number to display, or the "N/A" default of dict.get
NA == [num |-> FALSE, val |-> 0]
Num(x) == [num |-> TRUE, val |-> x]

Airport(n, c, lat, lon) == [name |-> n, iata_code |-> c, location |-> <<lat, lon>>]

APT_A == Airport("Alpha", "AAA", 0, 1)
APT_B == Airport("Bravo", "BBB", 0, -1)
APT_C == Airport("Charlie", "CCC", 1, 0)
APT_D == Airport("Delta", "DDD", 2, 2)

\* rows the airports file can hold
LoadPool == {APT_A, APT_B}
QueryPool == {APT_A, APT_B, APT_C, APT_D}

SeqsUpTo(S, n) == UNION {[1..m -> S] : m \in 0..n}

---------------------------------------------------------------------------
(* find_nearest_airports, lines 32-51 *)

Abs(x) == IF x < 0 THEN -x ELSE x

\* geopy folds a longitude into [-180, 180)
NormLon(lon) == ((lon + LonLimit) % (2 * LonLimit)) - LonLimit

\* geopy refuses a latitude outside [-90, 90] with ValueError
LatOk(lat) == -LatLimit <= lat /\ lat <= LatLimit

\* geodesic(a, b).km, line 44: stand-in distance, see the module comment
Geodesic(a, b) ==
    LET dlat == a[1] - b[1]
        d    == Abs(NormLon(a[2]) - NormLon(b[2]))
        dlon == IF d > LonLimit THEN 2 * LonLimit - d ELSE d
    IN  dlat * dlat + dlon * dlon

\* the loop of lines 42-45: one (airport, distance) pair per airport, in order
AirportDistances(user_lat, user_lon, airports) ==
    [i \in 1..Len(airports) |->
        <<airports[i], Geodesic(<<user_lat, user_lon>>, airports[i].location)>>]

\* an unstable placement: before the elements of equal key
InsertPos_BeforeEqual(s, x) == Cardinality({j \in 1..Len(s) : s[j][2] < x[2]}) + 1

\* where a stable sort puts pair x in the sorted sequence s: after every
\* element whose key is not larger
InsertPos(s, x) == Cardinality({j \in 1..Len(s) : s[j][2] <= x[2]}) + 1

Insert(s, x) ==
    LET p == InsertPos(s, x)
    IN  SubSeq(s, 1, p - 1) \o <<x>> \o SubSeq(s, p, Len(s))

\* list.sort(key=lambda x: x[1]), line 48: Python's sort is stable
RECURSIVE SortByDistance(_)
SortByDistance(s) ==
    IF s = <<>> THEN <<>>
    ELSE Insert(SortByDistance(SubSeq(s, 1, Len(s) - 1)), s[Len(s)])

\* s[:k], line 51: a negative k counts from the end
Slice(s, k) ==
    IF k >= 0 THEN SubSeq(s, 1, IF k < Len(s) THEN k ELSE Len(s))
    ELSE SubSeq(s, 1, IF Len(s) + k > 0 THEN Len(s) + k ELSE 0)

\* The call's outcome: raised (geodesic's ValueError, with a dataset to
\* measure against) or the returned list.
find_nearest_airports(user_lat, user_lon, airports, num_airports) ==
    IF airports # <<>> /\ ~LatOk(user_lat)
    THEN [raised |-> TRUE, list |-> <<>>]
    ELSE [raised |-> FALSE,
          list |-> Slice(SortByDistance(
                       AirportDistances(user_lat, user_lon, airports)),
                       num_airports)]

---------------------------------------------------------------------------
(* State *)

VARIABLES
    pc,               \* position of the main program / of update()
    caller,           \* who called update(): "main" (line 224) or "mainloop"
    airports,         \* the list built at lines 186-193
    loaded,           \* whether lines 185-193 have run
    user_lat,         \* line 200
    user_lon,
    located,          \* what the location provider did: "pending", "failed", "ok"
    telemetry_label,  \* the three StringVars of the HUD
    weather_label,
    airport_label,
    stamp,            \* the cycle that last wrote each label (0: never)
    cycle,            \* calls of update() so far
    pending,          \* callbacks registered with root.after and not yet run
    screen,           \* what the window last drew
    error,            \* the exception that left update() or the main program
    tele_raised,      \* the telemetry read of the current cycle raised
    fetch,            \* what the weather request of the current cycle did
    q_in,             \* QuerySpec: arguments of find_nearest_airports
    q_out             \* QuerySpec: its outcome

engine_vars == <<pc, caller, airports, loaded, user_lat, user_lon, located,
                 telemetry_label, weather_label, airport_label, stamp, cycle,
                 pending, screen, error, tele_raised, fetch>>
query_vars == <<q_in, q_out>>
vars == <<engine_vars, query_vars>>

NoError == [where |-> "none", msg |-> ""]
NoTelemetry == [latitude |-> 0, longitude |-> 0, altitude |-> 0,
                ground_speed |-> 0, battery |-> 0, mode |-> ""]

\* StringVar() starts as the empty string
EmptyTelemetryLabel == [kind |-> "", data |-> NoTelemetry, msg |-> ""]
EmptyWeatherLabel == [kind |-> "", celsius |-> NA, fahrenheit |-> NA, wind_speed |-> NA]
EmptyAirportLabel == [kind |-> "", lines |-> <<>>]

Labels == [telemetry |-> telemetry_label, weather |-> weather_label,
           airports |-> airport_label, stamp |-> stamp]

NoStamp == [telemetry |-> 0, weather |-> 0, airports |-> 0]
NoQuery == [lat |-> 0, lon |-> 0, airports |-> <<>>, k |-> 0]
NotRun == [done |-> FALSE, raised |-> FALSE, list |-> <<>>]

EngineInit ==
    /\ pc = "load"
    /\ caller = "main"
    /\ airports = <<>>
    /\ loaded = FALSE
    /\ user_lat = None
    /\ user_lon = None
    /\ located = "pending"
    /\ telemetry_label = EmptyTelemetryLabel
    /\ weather_label = EmptyWeatherLabel
    /\ airport_label = EmptyAirportLabel
    /\ stamp = NoStamp
    /\ cycle = 0
    /\ pending = 0
    /\ screen = [telemetry |-> EmptyTelemetryLabel, weather |-> EmptyWeatherLabel,
                 airports |-> EmptyAirportLabel, stamp |-> NoStamp]
    /\ error = NoError
    /\ tele_raised = FALSE
    /\ fetch = "none"

Init ==
    /\ EngineInit
    /\ q_in = NoQuery
    /\ q_out = NotRun

---------------------------------------------------------------------------
(* Exceptions *)

\* An exception leaving the main program is caught at line 229 and the
\* program ends.  One leaving update() when Tk called it is reported by Tk
\* and the main loop goes on, with update() abandoned where it was.
RaisedPc == IF caller = "main" THEN "exited" ELSE "mainloop"
Raised(msg) == [where |-> IF caller = "main" THEN "main" ELSE "callback", msg |-> msg]

---------------------------------------------------------------------------
(* Startup, lines 181-207 *)

\* what pd.read_csv and the list comprehension can give: an exception, or
\* one record per row of the file (a file with no rows gives no records)
LoadOutcomes == {[raised |-> TRUE, rows |-> <<>>]}
                \cup {[raised |-> FALSE, rows |-> r] : r \in SeqsUpTo(LoadPool, MaxRows)}

\* lines 183-197: load the dataset, then build the window with empty labels
LoadAirports ==
    /\ pc = "load"
    /\ \E o \in LoadOutcomes :
        IF o.raised
        THEN /\ pc' = "exited"
             /\ error' = Raised("read_csv failed")
             /\ UNCHANGED <<airports, loaded>>
        ELSE /\ pc' = "locate"
             /\ airports' = o.rows
             /\ loaded' = TRUE
             /\ UNCHANGED error
    /\ UNCHANGED <<caller, user_lat, user_lon, located, telemetry_label,
                   weather_label, airport_label, stamp, cycle, pending, screen,
                   tele_raised, fetch, query_vars>>

\* what ipinfo.io can answer: nothing usable, or a "lat,lon" pair
LocationAnswers == {[ok |-> FALSE, lat |-> 0, lon |-> 0]}
                   \cup {[ok |-> TRUE, lat |-> a, lon |-> b] : a \in {0, 1}, b \in {-1, 0}}

\* get_user_location, lines 17-29: any exception becomes (None, None)
get_user_location(answer) ==
    IF answer.ok THEN <<Float(answer.lat), Float(answer.lon)>> ELSE <<None, None>>

\* the test of line 201
LocationAccepted(lat, lon) == Truthy(lat) /\ Truthy(lon)

\* lines 200-204
GetUserLocation ==
    /\ pc = "locate"
    /\ \E answer \in LocationAnswers :
        LET loc == get_user_location(answer)
        IN  /\ user_lat' = loc[1]
            /\ user_lon' = loc[2]
            /\ located' = IF answer.ok THEN "ok" ELSE "failed"
            /\ IF LocationAccepted(loc[1], loc[2])
               THEN pc' = "connect" /\ UNCHANGED error
               ELSE /\ pc' = "exited"
                    /\ error' = Raised("Unable to determine user's location.")
    /\ UNCHANGED <<caller, airports, loaded, telemetry_label, weather_label,
                   airport_label, stamp, cycle, pending, screen, tele_raised,
                   fetch, query_vars>>

\* line 207: connect(..., wait_ready=True) returns a vehicle or raises
Connect ==
    /\ pc = "connect"
    /\ \E ok \in BOOLEAN :
        IF ok
        THEN pc' = "call_update" /\ UNCHANGED error
        ELSE pc' = "exited" /\ error' = Raised("connect failed")
    /\ UNCHANGED <<caller, airports, loaded, user_lat, user_lon, located,
                   telemetry_label, weather_label, airport_label, stamp, cycle,
                   pending, screen, tele_raised, fetch, query_vars>>

\* entering update(): a new cycle begins
EnterUpdate(who) ==
    /\ pc' = "telemetry"
    /\ caller' = who
    /\ cycle' = cycle + 1
    /\ tele_raised' = FALSE
    /\ fetch' = "none"

\* line 224: the first call of update(), made by the main program itself
CallUpdate ==
    /\ pc = "call_update"
    /\ EnterUpdate("main")
    /\ UNCHANGED <<airports, loaded, user_lat, user_lon, located,
                   telemetry_label, weather_label, airport_label, stamp,
                   pending, screen, error, query_vars>>

---------------------------------------------------------------------------
(* One refresh cycle: update(), lines 210-221 *)

\* what reading the vehicle's attributes can give (get_telemetry_data, lines
\* 148-162): the six fields, or an exception such as the AttributeError of
\* vehicle.battery being None
TelemetryReads ==
    { [raised |-> FALSE, msg |-> "",
       data |-> [latitude |-> 1, longitude |-> 1, altitude |-> 10,
                 ground_speed |-> 3, battery |-> 80, mode |-> "AUTO"]],
      [raised |-> TRUE, msg |-> "'NoneType' object has no attribute 'level'",
       data |-> NoTelemetry] }

\* lines 92-105: the text set on telemetry_label
TelemetryText(read) ==
    IF read.raised
    THEN [kind |-> "Error fetching telemetry", data |-> NoTelemetry, msg |-> read.msg]
    ELSE [kind |-> "telemetry", data |-> read.data, msg |-> ""]

\* update_telemetry that also registers the next callback itself
UpdateTelemetry_AlsoSchedules ==
    /\ pc = "telemetry"
    /\ \E read \in TelemetryReads :
        /\ telemetry_label' = TelemetryText(read)
        /\ tele_raised' = read.raised
    /\ stamp' = [stamp EXCEPT !.telemetry = cycle]
    /\ pending' = pending + 1
    /\ pc' = "weather"
    /\ UNCHANGED <<caller, airports, loaded, user_lat, user_lon, located,
                   weather_label, airport_label, cycle, screen, error,
                   fetch, query_vars>>

\* hud.update_telemetry(vehicle), line 212
UpdateTelemetry ==
    /\ pc = "telemetry"
    /\ \E read \in TelemetryReads :
        /\ telemetry_label' = TelemetryText(read)
        /\ tele_raised' = read.raised
    /\ stamp' = [stamp EXCEPT !.telemetry = cycle]
    /\ pc' = "weather"
    /\ UNCHANGED <<caller, airports, loaded, user_lat, user_lon, located,
                   weather_label, airport_label, cycle, pending, screen, error,
                   fetch, query_vars>>

\* JSON bodies of a 200 answer: the keys of the top-level object and the two
\* fields of current_weather ("N/A" when the key is missing)
WeatherBodies ==
    { [keys |-> {}, temperature |-> NA, windspeed |-> NA],
      [keys |-> {"hourly"}, temperature |-> NA, windspeed |-> NA],
      [keys |-> {"current_weather", "hourly"}, temperature |-> NA, windspeed |-> Num(3)],
      [keys |-> {"current_weather", "hourly"}, temperature |-> Num(10), windspeed |-> Num(3)] }

NoBody == [keys |-> {}, temperature |-> NA, windspeed |-> NA]

\* what requests.get(weather_url) can do (line 172, no timeout given): raise
\* (no route, reset, ...), never return, or return a response
WeatherAnswers ==
    { [did |-> "transport", status |-> 0, json |-> FALSE, body |-> NoBody],
      [did |-> "hang", status |-> 0, json |-> FALSE, body |-> NoBody],
      [did |-> "answer", status |-> 500, json |-> FALSE, body |-> NoBody],
      [did |-> "answer", status |-> HttpOk, json |-> FALSE, body |-> NoBody] }
    \cup {[did |-> "answer", status |-> HttpOk, json |-> TRUE, body |-> b] : b \in WeatherBodies}

\* get_weather_data, lines 165-177: "raise", "hang", "none" (None returned)
\* or "data" (the parsed body returned)
get_weather_data(answer) ==
    IF answer.did # "answer" THEN answer.did
    ELSE IF answer.status # HttpOk THEN "none"
    ELSE IF ~answer.json THEN "raise"
    ELSE "data"

\* what went wrong with the fetch, if anything
FetchKind(answer) ==
    IF answer.did # "answer" THEN answer.did
    ELSE IF answer.status # HttpOk THEN "status"
    ELSE IF ~answer.json THEN "unparseable"
    ELSE "ok"

\* (celsius * 9/5) + 32, line 120
Fahrenheit(celsius) ==
    IF celsius.num THEN Num((celsius.val * 9) \div 5 + 32) ELSE NA

\* lines 116-131: the text set on weather_label for a returned value
WeatherText(got, body) ==
    IF got = "data" /\ body.keys # {}
    THEN LET has == "current_weather" \in body.keys
             celsius == IF has THEN body.temperature ELSE NA
             wind == IF has THEN body.windspeed ELSE NA
         IN  [kind |-> "weather", celsius |-> celsius,
              fahrenheit |-> Fahrenheit(celsius), wind_speed |-> wind]
    ELSE [kind |-> "Failed to retrieve weather data.", celsius |-> NA,
          fahrenheit |-> NA, wind_speed |-> NA]

\* hud.update_weather(user_lat, user_lon), line 215
UpdateWeather ==
    /\ pc = "weather"
    /\ \E answer \in WeatherAnswers :
        LET got == get_weather_data(answer)
        IN  /\ fetch' = FetchKind(answer)
            /\ CASE got = "hang" ->
                      /\ pc' = "blocked"
                      /\ UNCHANGED <<weather_label, stamp, error>>
                 [] got = "raise" \/ got = "transport" ->
                      /\ pc' = RaisedPc
                      /\ error' = Raised(FetchKind(answer))
                      /\ UNCHANGED <<weather_label, stamp>>
                 [] OTHER ->
                      /\ pc' = "airports"
                      /\ weather_label' = WeatherText(got, answer.body)
                      /\ stamp' = [stamp EXCEPT !.weather = cycle]
                      /\ UNCHANGED error
    /\ UNCHANGED <<caller, airports, loaded, user_lat, user_lon, located,
                   telemetry_label, airport_label, cycle, pending, screen,
                   tele_raised, query_vars>>

\* lines 140-144: one line of text per (airport, distance) pair
AirportText(nearest) ==
    [kind |-> "Nearest Airports:",
     lines |-> [i \in 1..Len(nearest) |->
                   [name |-> nearest[i][1].name, iata_code |-> nearest[i][1].iata_code,
                    km |-> nearest[i][2]]]]

\* hud.update_airports(user_lat, user_lon, airports), line 218
UpdateAirports ==
    /\ pc = "airports"
    /\ LET r == find_nearest_airports(user_lat.val, user_lon.val, airports,
                                      DefaultNumAirports)
       IN  IF r.raised
           THEN /\ pc' = RaisedPc
                /\ error' = Raised("ValueError")
                /\ UNCHANGED <<airport_label, stamp>>
           ELSE /\ pc' = "schedule"
                /\ airport_label' = AirportText(r.list)
                /\ stamp' = [stamp EXCEPT !.airports = cycle]
                /\ UNCHANGED error
    /\ UNCHANGED <<caller, airports, loaded, user_lat, user_lon, located,
                   telemetry_label, weather_label, cycle, pending, screen,
                   tele_raised, fetch, query_vars>>

\* root.after(5000, update), line 221: one more callback is registered.  The
\* first call then returns to line 224 and the program enters
\* root.mainloop() (line 227); a later call returns to the main loop.
Schedule ==
    /\ pc = "schedule"
    /\ pending' = pending + 1
    /\ pc' = "mainloop"
    /\ UNCHANGED <<caller, airports, loaded, user_lat, user_lon, located,
                   telemetry_label, weather_label, airport_label, stamp, cycle,
                   screen, error, tele_raised, fetch, query_vars>>

---------------------------------------------------------------------------
(* The Tk main loop, line 227 *)

\* a registered callback comes due: Tk calls update().  Tk runs callbacks
\* from the main loop only, one at a time.
Tick ==
    /\ pc = "mainloop"
    /\ pending > 0
    /\ cycle < MaxCycles
    /\ pending' = pending - 1
    /\ EnterUpdate("mainloop")
    /\ UNCHANGED <<airports, loaded, user_lat, user_lon, located,
                   telemetry_label, weather_label, airport_label, stamp,
                   screen, error, query_vars>>

\* the window redraws its labels when the main loop is idle
Render ==
    /\ pc = "mainloop"
    /\ screen' = Labels
    /\ UNCHANGED <<pc, caller, airports, loaded, user_lat, user_lon, located,
                   telemetry_label, weather_label, airport_label, stamp, cycle,
                   pending, error, tele_raised, fetch, query_vars>>

Next ==
    \/ LoadAirports
    \/ GetUserLocation
    \/ Connect
    \/ CallUpdate
    \/ UpdateTelemetry
    \/ UpdateWeather
    \/ UpdateAirports
    \/ Schedule
    \/ Tick
    \/ Render

Spec == Init /\ [][Next]_vars

---------------------------------------------------------------------------
(* find_nearest_airports on its own: any dataset, origin and num_airports *)

QueryLats == {-(LatLimit + 1), 0, 1}
QueryLons == {-(LonLimit + 1), 0, 1}

QueryInit ==
    /\ EngineInit
    /\ q_in \in [lat : QueryLats, lon : QueryLons,
                 airports : SeqsUpTo(QueryPool, MaxAirports), k : -1..MaxK]
    /\ q_out = NotRun

\* one call of find_nearest_airports with the arguments drawn in QueryInit
Query ==
    /\ ~q_out.done
    /\ LET r == find_nearest_airports(q_in.lat, q_in.lon, q_in.airports, q_in.k)
       IN  q_out' = [done |-> TRUE, raised |-> r.raised, list |-> r.list]
    /\ UNCHANGED <<engine_vars, q_in>>

QueryNext == Query

QuerySpec == QueryInit /\ [][QueryNext]_vars

---------------------------------------------------------------------------
(* Properties *)

\* the cycle that was started is over: update() returned or was left by an
\* exception
CycleOver == cycle >= 1 /\ pc \in {"mainloop", "exited"}

\* C1: in a cycle whose telemetry read raised, the telemetry label shows the
\* error with its message, and the weather and airports labels were written
\* by the same cycle.
C1_TelemetryFailureIsolated ==
    (tele_raised /\ CycleOver) =>
        /\ telemetry_label.kind = "Error fetching telemetry"
        /\ telemetry_label.msg # ""
        /\ stamp.telemetry = cycle
        /\ stamp.weather = cycle
        /\ stamp.airports = cycle

\* C2: in a cycle whose weather fetch failed (status, transport, unparseable
\* body), the weather label shows the failure, no exception left the cycle,
\* the airports label was written and the next callback was registered.
C2_WeatherFailureIsolated ==
    (fetch \in {"status", "transport", "unparseable"} /\ CycleOver) =>
        /\ weather_label.kind = "Failed to retrieve weather data."
        /\ stamp.weather = cycle
        /\ error = NoError
        /\ stamp.airports = cycle
        /\ pending = 1

\* C3: once a cycle has started the engine never ends or fails: no exception
\* is recorded, the program has not exited, and whenever it waits in the main
\* loop the next cycle is registered.
C3_EngineKeepsCycling ==
    cycle >= 1 =>
        /\ pc # "exited"
        /\ error = NoError
        /\ (pc = "mainloop" => pending = 1)

\* C4: at most one callback is registered at any time, and one is registered
\* only when the cycle in progress has finished all three of its update
\* steps and update() has returned.
C4_CyclesNeverOverlap ==
    /\ pending <= 1
    /\ pending = 1 =>
        /\ pc = "mainloop"
        /\ stamp.telemetry = cycle
        /\ stamp.weather = cycle
        /\ stamp.airports = cycle

\* a second cycle has run to its end and registered the third
C4_Witness == cycle >= 2 /\ pending = 1 /\ pc = "mainloop"

QueryOrigin == <<q_in.lat, q_in.lon>>
QueryDistance(i) == Geodesic(QueryOrigin, q_in.airports[i].location)
Min(a, b) == IF a < b THEN a ELSE b

\* C5: for a non-empty dataset, an origin in range and k >= 1 the result has
\* min(k, size) entries with non-decreasing distances; the entries are
\* distinct rows of the dataset, each with its distance; no row left out is
\* closer than a returned one; rows at equal distance come in dataset order,
\* returned ones before left-out ones.
C5_NearestIsStableSortedPrefix ==
    (/\ q_out.done
     /\ q_in.airports # <<>>
     /\ q_in.k >= 1
     /\ LatOk(q_in.lat)) =>
        LET r == q_out.list
            n == Len(q_in.airports)
        IN  /\ ~q_out.raised
            /\ Len(r) = Min(q_in.k, n)
            /\ \A i \in 1..(Len(r) - 1) : r[i][2] <= r[i + 1][2]
            /\ \E f \in [1..Len(r) -> 1..n] :
                /\ \A i \in 1..Len(r) :
                      r[i] = <<q_in.airports[f[i]], QueryDistance(f[i])>>
                /\ \A i, j \in 1..Len(r) :
                      i < j => /\ f[i] # f[j]
                               /\ (r[i][2] = r[j][2] => f[i] < f[j])
                /\ \A m \in 1..n :
                      (\A i \in 1..Len(r) : f[i] # m) =>
                          \A i \in 1..Len(r) :
                              \/ QueryDistance(m) > r[i][2]
                              \/ (QueryDistance(m) = r[i][2] /\ f[i] < m)

\* two different airports at the same distance were returned, and one
\* airport was left out
C5_Witness ==
    /\ q_out.done
    /\ ~q_out.raised
    /\ q_in.k = 2
    /\ Len(q_in.airports) = 3
    /\ Len(q_out.list) = 2
    /\ q_out.list[1][2] = q_out.list[2][2]
    /\ q_out.list[1][1] # q_out.list[2][1]

LonOk(lon) == -LonLimit <= lon /\ lon <= LonLimit

\* C6: a query with k <= 0 or an origin out of range fails and returns no
\* list.
C6_InvalidQueryFails ==
    (/\ q_out.done
     /\ (q_in.k <= 0 \/ ~LatOk(q_in.lat) \/ ~LonOk(q_in.lon))) =>
        q_out.raised

\* C7: when the location could not be resolved or the loaded dataset is
\* empty, no refresh cycle is ever started.
C7_StartupFailuresFatal ==
    (located = "failed" \/ (loaded /\ airports = <<>>)) => cycle = 0

\* C8: when the location provider returned coordinates, startup does not
\* fail on the location.
C8_ReturnedLocationAccepted ==
    located = "ok" =>
        ~(pc = "exited" /\ error.msg = "Unable to determine user's location.")

\* C9: what the window shows always has its three parts from the same cycle.
C9_AtomicPublication ==
    /\ screen.stamp.telemetry = screen.stamp.weather
    /\ screen.stamp.weather = screen.stamp.airports

\* C10: a cycle in progress can always take a further step: no source call
\* waits without bound.
C10_CycleNeverStalls ==
    pc \in {"telemetry", "weather", "airports", "schedule", "blocked"} =>
        ENABLED Next

====
